---- MODULE Spec2Model ----
(***************************************************************************)
(* Silent Scalper: the upload-credential issuer (GetPresignedURL) and the  *)
(* S3-triggered file processor (FileProcessor), with the object store and  *)
(* the metadata table they act on.                                         *)
(*                                                                         *)
(* Text is a sequence of characters; a character is a string naming one    *)
(* code point (ASCII characters name themselves, "U+00E9" names e-acute).  *)
(* An object body is a sequence of bytes; an ASCII byte is named by its    *)
(* character, the other bytes by their hexadecimal value ("C3", "A9",      *)
(* "FF").                                                                  *)
(***************************************************************************)
EXTENDS Integers, Sequences, FiniteSets, TLC

(***************************************************************************)
(* Text helpers: Python's str operations used by the two handlers.         *)
(***************************************************************************)

Range(s) == {s[i] : i \in 1..Len(s)}

\* the first index of character c in s, 0 when absent (str.find)
Find(s, c) ==
    IF c \in Range(s)
    THEN CHOOSE i \in 1..Len(s) : s[i] = c /\ \A j \in 1..(i - 1) : s[j] # c
    ELSE 0

\* needle in hay (Python's substring test on str)
Contains(hay, needle) ==
    \E i \in 0..(Len(hay) - Len(needle)) :
        \A j \in 1..Len(needle) : hay[i + j] = needle[j]

UpperCase == <<"A", "B", "C", "D", "E", "F", "G", "H", "I", "J", "K", "L", "M",
               "N", "O", "P", "Q", "R", "S", "T", "U", "V", "W", "X", "Y", "Z">>
LowerCase == <<"a", "b", "c", "d", "e", "f", "g", "h", "i", "j", "k", "l", "m",
               "n", "o", "p", "q", "r", "s", "t", "u", "v", "w", "x", "y", "z">>

\* str.lower()
Lower(s) ==
    [i \in 1..Len(s) |->
        IF s[i] \in Range(UpperCase) THEN LowerCase[Find(UpperCase, s[i])] ELSE s[i]]

RECURSIVE Join(_, _)
\* sep.join(parts)
Join(parts, sep) ==
    IF parts = <<>> THEN <<>>
    ELSE IF Len(parts) = 1 THEN parts[1]
    ELSE parts[1] \o sep \o Join(Tail(parts), sep)

(***************************************************************************)
(* UTF-8: bytes.decode('utf-8') and str.encode('utf-8').                   *)
(***************************************************************************)

LeadByte == "C3"
ContByte == "A9"
BadByte == "FF"
EAcute == "U+00E9"
NonAscii == {LeadByte, ContByte, BadByte}

RECURSIVE Utf8Decode(_)
\* [ok, text]: the text of a byte sequence, ok = FALSE on UnicodeDecodeError
Utf8Decode(b) ==
    IF b = <<>> THEN [ok |-> TRUE, text |-> <<>>]
    ELSE IF Head(b) \notin NonAscii
    THEN LET r == Utf8Decode(Tail(b))
         IN  [ok |-> r.ok, text |-> <<Head(b)>> \o r.text]
    ELSE IF Head(b) = LeadByte /\ Len(b) >= 2 /\ b[2] = ContByte
    THEN LET r == Utf8Decode(Tail(Tail(b)))
         IN  [ok |-> r.ok, text |-> <<EAcute>> \o r.text]
    ELSE [ok |-> FALSE, text |-> <<>>]

RECURSIVE Utf8Encode(_)
Utf8Encode(s) ==
    IF s = <<>> THEN <<>>
    ELSE IF Head(s) = EAcute THEN <<LeadByte, ContByte>> \o Utf8Encode(Tail(s))
    ELSE <<Head(s)>> \o Utf8Encode(Tail(s))

(***************************************************************************)
(* json.loads on the documents the model uploads: objects, lists, strings  *)
(* without escapes, non-negative integers, true, false and null, without   *)
(* white space.  A value is [t, s, items]; an object's items are its       *)
(* members [k, v], one per key, a later duplicate replacing the value.     *)
(***************************************************************************)

Digits == {"0", "1", "2", "3", "4", "5", "6", "7", "8", "9"}
Quote == "\""

JStr(cs) == [t |-> "str", s |-> cs, items |-> <<>>]
JNum(cs) == [t |-> "num", s |-> cs, items |-> <<>>]
JLit(name) == [t |-> name, s |-> <<>>, items |-> <<>>]
JList(items) == [t |-> "list", s |-> <<>>, items |-> items]
JObj(members) == [t |-> "obj", s |-> <<>>, items |-> members]

ParseFail == [ok |-> FALSE, v |-> JLit("null"), n |-> 0]
ParseOk(v, n) == [ok |-> TRUE, v |-> v, n |-> n]

StartsAt(s, i, word) ==
    /\ i + Len(word) - 1 <= Len(s)
    /\ \A j \in 1..Len(word) : s[i + j - 1] = word[j]

\* dict insertion: a key already present keeps its place and takes the new value
PutMember(members, k, v) ==
    IF \E i \in 1..Len(members) : members[i].k = k
    THEN [i \in 1..Len(members) |->
            IF members[i].k = k THEN [k |-> k, v |-> v] ELSE members[i]]
    ELSE Append(members, [k |-> k, v |-> v])

\* a string literal at s[i]: [ok, v (its characters), n (index after it)]
ParseString(s, i) ==
    IF i <= Len(s) /\ s[i] = Quote /\ \E j \in (i + 1)..Len(s) : s[j] = Quote
    THEN LET j == CHOOSE j \in (i + 1)..Len(s) :
                     s[j] = Quote /\ \A m \in (i + 1)..(j - 1) : s[m] # Quote
         IN  [ok |-> TRUE, v |-> SubSeq(s, i + 1, j - 1), n |-> j + 1]
    ELSE [ok |-> FALSE, v |-> <<>>, n |-> 0]

\* the index after the run of digits that starts at s[i]
DigitsEnd(s, i) ==
    IF s[i] = "0" THEN i + 1
    ELSE CHOOSE j \in (i + 1)..(Len(s) + 1) :
            /\ \A m \in i..(j - 1) : s[m] \in Digits
            /\ (j = Len(s) + 1 \/ s[j] \notin Digits)

RECURSIVE ParseValue(_, _), ParseElems(_, _, _), ParseMembers(_, _, _)

ParseValue(s, i) ==
    IF i > Len(s) THEN ParseFail
    ELSE IF s[i] = Quote
    THEN LET r == ParseString(s, i)
         IN  IF r.ok THEN ParseOk(JStr(r.v), r.n) ELSE ParseFail
    ELSE IF s[i] \in Digits
    THEN LET j == DigitsEnd(s, i) IN ParseOk(JNum(SubSeq(s, i, j - 1)), j)
    ELSE IF StartsAt(s, i, <<"n", "u", "l", "l">>) THEN ParseOk(JLit("null"), i + 4)
    ELSE IF StartsAt(s, i, <<"t", "r", "u", "e">>) THEN ParseOk(JLit("true"), i + 4)
    ELSE IF StartsAt(s, i, <<"f", "a", "l", "s", "e">>) THEN ParseOk(JLit("false"), i + 5)
    ELSE IF s[i] = "["
    THEN IF i + 1 <= Len(s) /\ s[i + 1] = "]"
         THEN ParseOk(JList(<<>>), i + 2)
         ELSE ParseElems(s, i + 1, <<>>)
    ELSE IF s[i] = "{"
    THEN IF i + 1 <= Len(s) /\ s[i + 1] = "}"
         THEN ParseOk(JObj(<<>>), i + 2)
         ELSE ParseMembers(s, i + 1, <<>>)
    ELSE ParseFail

\* the elements of a list from s[i] on, acc holding those already read
ParseElems(s, i, acc) ==
    LET r == ParseValue(s, i)
    IN  IF ~r.ok \/ r.n > Len(s) THEN ParseFail
        ELSE IF s[r.n] = "]" THEN ParseOk(JList(Append(acc, r.v)), r.n + 1)
        ELSE IF s[r.n] = "," THEN ParseElems(s, r.n + 1, Append(acc, r.v))
        ELSE ParseFail

\* the members of an object from s[i] on, acc holding those already read
ParseMembers(s, i, acc) ==
    LET k == ParseString(s, i)
    IN  IF ~k.ok \/ k.n > Len(s) \/ s[k.n] # ":" THEN ParseFail
        ELSE LET r == ParseValue(s, k.n + 1)
             IN  IF ~r.ok \/ r.n > Len(s) THEN ParseFail
                 ELSE IF s[r.n] = "}"
                 THEN ParseOk(JObj(PutMember(acc, k.v, r.v)), r.n + 1)
                 ELSE IF s[r.n] = ","
                 THEN ParseMembers(s, r.n + 1, PutMember(acc, k.v, r.v))
                 ELSE ParseFail

\* json.loads(text): [ok, v], ok = FALSE on json.JSONDecodeError
json_loads(text) ==
    LET r == ParseValue(text, 1)
    IN  IF r.ok /\ r.n = Len(text) + 1
        THEN [ok |-> TRUE, v |-> r.v]
        ELSE [ok |-> FALSE, v |-> JLit("null")]

RECURSIVE PyRepr(_)
\* repr(v) of a parsed value
PyRepr(v) ==
    CASE v.t = "str" -> <<"'">> \o v.s \o <<"'">>
      [] v.t = "num" -> v.s
      [] v.t = "null" -> <<"N", "o", "n", "e">>
      [] v.t = "true" -> <<"T", "r", "u", "e">>
      [] v.t = "false" -> <<"F", "a", "l", "s", "e">>
      [] v.t = "list" ->
            <<"[">> \o Join([i \in 1..Len(v.items) |-> PyRepr(v.items[i])],
                            <<",", " ">>) \o <<"]">>
      [] v.t = "obj" ->
            <<"{">> \o Join([i \in 1..Len(v.items) |->
                                <<"'">> \o v.items[i].k \o <<"'", ":", " ">>
                                    \o PyRepr(v.items[i].v)],
                            <<",", " ">>) \o <<"}">>

\* str(v) of a parsed value
PyStr(v) == IF v.t = "str" THEN v.s ELSE PyRepr(v)

(***************************************************************************)
(* FileProcessor: the pure functions.                                      *)
(***************************************************************************)

JOB_ID == <<"j", "o", "b", "_", "i", "d">>
JobIdAlt == <<"J", "o", "b", "I", "d">>
UNKNOWN == <<"U", "N", "K", "N", "O", "W", "N">>
Separator == "-"

\* the validator that looks for the keyword as spelled, without lower()
validate_case_sensitive(file_content) ==
    IF file_content = <<>>
    THEN [is_valid |-> FALSE, message |-> "File is empty"]
    ELSE IF ~Contains(file_content, JOB_ID)
    THEN [is_valid |-> FALSE, message |-> "Content missing 'job_id' keyword"]
    ELSE [is_valid |-> TRUE, message |-> "Valid"]

\* validate_file_content(file_content): (is_valid, message)
validate_file_content(file_content) ==
    IF file_content = <<>>
    THEN [is_valid |-> FALSE, message |-> "File is empty"]
    ELSE IF ~Contains(Lower(file_content), JOB_ID)
    THEN [is_valid |-> FALSE, message |-> "Content missing 'job_id' keyword"]
    ELSE [is_valid |-> TRUE, message |-> "Valid"]

\* `name in data` on a parsed value: [raised, val]; raised is a TypeError
PyIn(name, data) ==
    CASE data.t = "obj" ->
            [raised |-> FALSE,
             val |-> \E i \in 1..Len(data.items) : data.items[i].k = name]
      [] data.t = "str" -> [raised |-> FALSE, val |-> Contains(data.s, name)]
      [] data.t = "list" ->
            [raised |-> FALSE,
             val |-> \E i \in 1..Len(data.items) : data.items[i] = JStr(name)]
      [] OTHER -> [raised |-> TRUE, val |-> FALSE]

\* data[name] with a str subscript: [raised, v]; only a dict accepts it, and the
\* handler subscripts only after `name in data` held
PyGetItem(data, name) ==
    IF data.t = "obj"
    THEN [raised |-> FALSE,
          v |-> data.items[CHOOSE i \in 1..Len(data.items) : data.items[i].k = name].v]
    ELSE [raised |-> TRUE, v |-> JLit("null")]

JobIdFound(cs) == [raised |-> FALSE, job_id |-> cs]
JobIdRaised == [raised |-> TRUE, job_id |-> <<>>]

\* lines 46-56: the job id of the content, or the TypeError that escapes the
\* except clause, which names json.JSONDecodeError only
ExtractJobId(file_content) ==
    LET parsed == json_loads(file_content)
        data == parsed.v
        in1 == PyIn(JOB_ID, data)
        in2 == PyIn(JobIdAlt, data)
        get1 == PyGetItem(data, JOB_ID)
        get2 == PyGetItem(data, JobIdAlt)
    IN  IF ~parsed.ok THEN JobIdFound(UNKNOWN)
        ELSE IF in1.raised THEN JobIdRaised
        ELSE IF in1.val
        THEN IF get1.raised THEN JobIdRaised ELSE JobIdFound(PyStr(get1.v))
        ELSE IF in2.raised THEN JobIdRaised
        ELSE IF in2.val
        THEN IF get2.raised THEN JobIdRaised ELSE JobIdFound(PyStr(get2.v))
        ELSE JobIdFound(UNKNOWN)

\* s3_key.split('-', 1)[-1] if '-' in s3_key else s3_key
OriginalFileName(s3_key) ==
    IF Separator \in Range(s3_key)
    THEN SubSeq(s3_key, Find(s3_key, Separator) + 1, Len(s3_key))
    ELSE s3_key

\* len(file_content.encode('utf-8'))
FileSize(file_content) == Len(Utf8Encode(file_content))

\* extract_metadata(file_content, s3_key) at time now: [raised, metadata]
extract_metadata(file_content, s3_key, now) ==
    LET j == ExtractJobId(file_content)
    IN  [raised |-> j.raised,
         metadata |->
            [JobId |-> j.job_id,
             OriginalFileName |-> OriginalFileName(s3_key),
             S3Key |-> s3_key,
             FileSize |-> FileSize(file_content),
             ProcessingTimestamp |-> now]]

(***************************************************************************)
(* The inputs: keys, object bodies and events.                             *)
(***************************************************************************)

InputBucket == "input-bucket"
QuarantineBucket == "quarantine-bucket"

Rep(c, n) == [i \in 1..n |-> c]

\* str(uuid.uuid4()): five groups of hexadecimal digits joined by '-', the
\* version digit 4 and the variant digit a; d fills the random digits
UuidText(d) ==
    Join(<<Rep(d, 8), Rep(d, 4), <<"4">> \o Rep(d, 3), <<"a">> \o Rep(d, 3),
           Rep(d, 12)>>, <<Separator>>)

Uuids == {UuidText("0"), UuidText("f")}

ReportCsv == <<"r", ".", "c", "s", "v">>
DashedName == <<"a", "-", "b">>
\* filenames a client may ask a credential for
Filenames == {ReportCsv, DashedName}

\* f"{uuid.uuid4()}-{original_filename}" for the uuid u
s3_object_key(u, original_filename) == u \o <<Separator>> \o original_filename

IssuedKeys == {s3_object_key(u, f) : u \in Uuids, f \in Filenames}

\* keys of objects put into the input bucket by other writers
PlainKey == <<"p", ".", "t", "x", "t">>
TokenKey == <<"t", "-", "n">>
\* the key of an event whose object is gone when it is processed
GhostKey == <<"g", "-", "x">>

JsonString(cs) == <<Quote>> \o cs \o <<Quote>>
JsonObject1(k, v) == <<"{">> \o JsonString(k) \o <<":">> \o v \o <<"}">>
JsonObject2(k1, v1, k2, v2) ==
    <<"{">> \o JsonString(k1) \o <<":">> \o v1 \o <<",">>
        \o JsonString(k2) \o <<":">> \o v2 \o <<"}">>

J1 == <<"J", "1">>
J2 == <<"J", "2">>

\* the object bodies of the model, as bytes
Bodies ==
    << <<>>,                                             \* empty file
       <<"h", "i">>,                                     \* text, no keyword
       JOB_ID \o <<"=", "7">>,                           \* text with the keyword
       <<"J", "O", "B", "_", "I", "D", "=", "7">>,       \* keyword in upper case
       <<"c", "a", "f", LeadByte, ContByte>>,            \* non-ASCII text
       <<"h", BadByte>>,                                 \* not UTF-8
       JsonObject1(JOB_ID, JsonString(J1)),
       JsonObject1(JobIdAlt, JsonString(J2)),
       JsonObject1(<<"J", "O", "B", "_", "I", "D">>, JsonString(J1)),
       JsonObject1(<<"a">>, JsonString(<<"b">>)),
       JsonObject1(JOB_ID, <<"4", "2">>),
       JsonObject1(JOB_ID, <<"n", "u", "l", "l">>),
       JsonObject1(JOB_ID, <<"[", "1", ",", "2", "]">>),
       JsonObject1(JOB_ID, JsonString(<<>>)),
       JsonObject2(JOB_ID, JsonString(J1), JobIdAlt, JsonString(J2)),
       JsonObject2(JobIdAlt, JsonString(J2), JOB_ID, JsonString(J1)),
       JsonObject1(JOB_ID, JsonString(GhostKey)),
       JsonObject1(JOB_ID, JsonString(UNKNOWN)),
       <<"{", "}">>,
       JsonString(JOB_ID),                               \* a JSON string
       JsonString(<<"x">>),
       <<"5">>,                                          \* a JSON number
       <<"n", "u", "l", "l">>,
       <<"t", "r", "u", "e">>,
       <<"[", "]">>,
       <<"[">> \o JsonString(JOB_ID) \o <<"]">>,         \* a JSON list
       <<"[">> \o JsonString(<<"a">>) \o <<"]">>,
       <<"{">> \o JsonString(JOB_ID) >>                  \* truncated JSON

UploadKeys ==
    << s3_object_key(UuidText("0"), ReportCsv), TokenKey, PlainKey,
       s3_object_key(UuidText("f"), DashedName) >>

\* the uploads of the model: every body once, the keys taken in turn
\* an invalid file that names its own key as its JobId
SelfNamedUpload ==
    [key |-> TokenKey, body |-> JsonObject1(JobIdAlt, JsonString(TokenKey))]

Uploads ==
    {[key |-> UploadKeys[((i - 1) % Len(UploadKeys)) + 1], body |-> Bodies[i]] :
        i \in 1..Len(Bodies)} \cup {SelfNamedUpload}

S3Record(bucket, key) == [bucket |-> bucket, key |-> key]

\* the events delivered for a bucket holding one object under key: no Records
\* field, an empty Records list, the object's record, the record of an object
\* that is gone, and batches of two records
EventsFor(key) ==
    { [hasRecords |-> FALSE, Records |-> <<>>],
      [hasRecords |-> TRUE, Records |-> <<>>],
      [hasRecords |-> TRUE, Records |-> <<S3Record(InputBucket, key)>>],
      [hasRecords |-> TRUE, Records |-> <<S3Record(InputBucket, GhostKey)>>],
      [hasRecords |-> TRUE,
       Records |-> <<S3Record(InputBucket, key), S3Record(InputBucket, GhostKey)>>],
      [hasRecords |-> TRUE,
       Records |-> <<S3Record(InputBucket, GhostKey), S3Record(InputBucket, key)>>] }

(***************************************************************************)
(* The state.                                                              *)
(***************************************************************************)

VARIABLES
    s3,          \* bucket name -> (key -> body): the object store
    table,       \* the items of the metadata table
    clock,       \* datetime.now()
    pc,          \* invocation -> its place in lambda_handler
    event,       \* invocation -> the event it was started with
    loc,         \* invocation -> lambda_handler's local variables
    calls,       \* invocation -> the I/O calls it made, in order
    response,    \* invocation -> what lambda_handler returned
    writes,      \* the items the table accepted, in the order it accepted them
    S3_INPUT_BUCKET_NAME,  \* GetPresignedURL's environment variable ("" when unset)
    issuerLog    \* the requests served by GetPresignedURL, with their responses

issuerVars == <<S3_INPUT_BUCKET_NAME, issuerLog>>
processorVars == <<s3, table, clock, pc, event, loc, calls, response, writes>>
vars == <<s3, table, clock, pc, event, loc, calls, response, writes,
          S3_INPUT_BUCKET_NAME, issuerLog>>

Invocations == DOMAIN pc

NoEvent == [hasRecords |-> FALSE, Records |-> <<>>]
NoResponse == [statusCode |-> 0]
NoItem == [JobId |-> <<>>, ValidationStatus |-> "NONE"]
NoLocals ==
    [source_bucket_name |-> "", s3_key |-> <<>>, file_content |-> <<>>,
     is_valid |-> FALSE, validation_message |-> "", metadata |-> NoItem, e |-> ""]

(***************************************************************************)
(* The collaborators: S3 and the DynamoDB table.                           *)
(***************************************************************************)

HasObject(store, bucket, key) == key \in DOMAIN store[bucket]

\* s3_client.copy_object / a client's PUT: the object under key is replaced
PutObject(store, bucket, key, body) ==
    [store EXCEPT ![bucket] =
        [k \in (DOMAIN store[bucket]) \cup {key} |->
            IF k = key THEN body ELSE store[bucket][k]]]

\* Table.put_item(Item=item) on a table whose primary key is JobId: the item
\* replaces the item of the same JobId
put_item(items, item) == {r \in items : r.JobId # item.JobId} \cup {item}

\* the write made conditional on the JobId being new: the first write wins
WriteRecordIfAbsent(items, item) ==
    IF \E r \in items : r.JobId = item.JobId THEN items ELSE put_item(items, item)

\* dynamodb_table.put_item(Item=item), as both call sites make it: with the item
\* alone, no condition on what the table holds
WriteRecord(items, item) == put_item(items, item)

GetCall(bucket, key, ok) ==
    [op |-> "get_object", Bucket |-> bucket, Key |-> key, ok |-> ok]
PutCall(item, ok) == [op |-> "put_item", Item |-> item, ok |-> ok]
CopyCall(bucket, key, srcBucket, srcKey, ok) ==
    [op |-> "copy_object", Bucket |-> bucket, Key |-> key,
     CopySource |-> [Bucket |-> srcBucket, Key |-> srcKey], ok |-> ok]

(***************************************************************************)
(* FileProcessor.lambda_handler, one action per step between I/O calls.    *)
(***************************************************************************)

QuarantinePrefix == <<"i", "n", "v", "a", "l", "i", "d", "/">>
\* f"invalid/{s3_key}"
QuarantineKey(s3_key) == QuarantinePrefix \o s3_key

\* 'VALID' if is_valid else 'INVALID'
StatusOf(is_valid) == IF is_valid THEN "VALID" ELSE "INVALID"

\* the branch of line 118 taken whatever the validation said
NeedsQuarantineAlways(is_valid) == TRUE

\* line 118: if not is_valid
NeedsQuarantine(is_valid) == ~is_valid

\* lines 108-110: the record put on the success path
NormalItem(metadata, is_valid, validation_message, source_bucket_name) ==
    [JobId |-> metadata.JobId,
     OriginalFileName |-> metadata.OriginalFileName,
     S3Key |-> metadata.S3Key,
     FileSize |-> metadata.FileSize,
     ProcessingTimestamp |-> metadata.ProcessingTimestamp,
     ValidationStatus |-> StatusOf(is_valid),
     ValidationMessage |-> validation_message,
     SourceBucket |-> source_bucket_name]

\* the failure record filed under the sentinel instead of the storage key
failure_metadata_unknown(s3_key, file_content, e, source_bucket_name, now) ==
    [JobId |-> UNKNOWN,
     Timestamp |-> now,
     S3Key |-> s3_key,
     ValidationStatus |-> "PROCESSING_FAILED",
     ValidationMessage |-> e,
     OriginalFileName |-> OriginalFileName(s3_key),
     FileSize |-> IF file_content # <<>> THEN FileSize(file_content) ELSE 0,
     SourceBucket |-> source_bucket_name]

\* the failure record filed under the key and the time of the failure
failure_metadata_stamped(s3_key, file_content, e, source_bucket_name, now) ==
    [JobId |-> s3_key \o Rep("+", now + 1),
     Timestamp |-> now,
     S3Key |-> s3_key,
     ValidationStatus |-> "PROCESSING_FAILED",
     ValidationMessage |-> e,
     OriginalFileName |-> OriginalFileName(s3_key),
     FileSize |-> IF file_content # <<>> THEN FileSize(file_content) ELSE 0,
     SourceBucket |-> source_bucket_name]

\* lines 149-158: the record put in the except clause
failure_metadata(s3_key, file_content, e, source_bucket_name, now) ==
    [JobId |-> s3_key,
     Timestamp |-> now,
     S3Key |-> s3_key,
     ValidationStatus |-> "PROCESSING_FAILED",
     ValidationMessage |-> e,
     OriginalFileName |-> OriginalFileName(s3_key),
     FileSize |-> IF file_content # <<>> THEN FileSize(file_content) ELSE 0,
     SourceBucket |-> source_bucket_name]

NoRecordsResponse ==
    [statusCode |-> 400, body |-> [message |-> "No S3 records found in the event"]]

SuccessResponse(s3_key, is_valid, validation_message, jobId) ==
    [statusCode |-> 200,
     body |-> [message |-> "File processed successfully", s3Key |-> s3_key,
               isValid |-> is_valid, validationMessage |-> validation_message,
               jobId |-> jobId]]

ErrorResponse(s3_key, e) ==
    [statusCode |-> 500,
     body |-> [message |-> "Error processing file", s3Key |-> s3_key, error |-> e]]

\* the exception of line 142 is caught: control moves to the except clause
Raise(i, e) ==
    /\ pc' = [pc EXCEPT ![i] = "except"]
    /\ loc' = [loc EXCEPT ![i].e = e]

\* the handler that treats an event without records as a failure to record
StartEmptyIsError(i, ev) ==
    /\ pc[i] = "idle"
    /\ event' = [event EXCEPT ![i] = ev]
    /\ IF ~ev.hasRecords \/ ev.Records = <<>>
       THEN Raise(i, "IndexError")
       ELSE /\ pc' = [pc EXCEPT ![i] = "read"]
            /\ loc' = [loc EXCEPT ![i].source_bucket_name = ev.Records[1].bucket,
                                  ![i].s3_key = ev.Records[1].key,
                                  ![i].file_content = <<>>]
    /\ UNCHANGED <<s3, table, clock, calls, response, writes, issuerVars>>

\* the handler that takes the last record of the batch instead of the first
StartLastRecord(i, ev) ==
    /\ pc[i] = "idle"
    /\ event' = [event EXCEPT ![i] = ev]
    /\ IF ~ev.hasRecords \/ ev.Records = <<>>
       THEN /\ pc' = [pc EXCEPT ![i] = "done"]
            /\ response' = [response EXCEPT ![i] = NoRecordsResponse]
            /\ loc' = loc
       ELSE /\ pc' = [pc EXCEPT ![i] = "read"]
            /\ loc' = [loc EXCEPT
                  ![i].source_bucket_name = ev.Records[Len(ev.Records)].bucket,
                  ![i].s3_key = ev.Records[Len(ev.Records)].key,
                  ![i].file_content = <<>>]
            /\ response' = response
    /\ UNCHANGED <<s3, table, clock, calls, writes, issuerVars>>

\* lines 77-95: the trigger delivers ev
Start(i, ev) ==
    /\ pc[i] = "idle"
    /\ event' = [event EXCEPT ![i] = ev]
    /\ IF ~ev.hasRecords \/ ev.Records = <<>>
       THEN /\ pc' = [pc EXCEPT ![i] = "done"]
            /\ response' = [response EXCEPT ![i] = NoRecordsResponse]
            /\ loc' = loc
       ELSE /\ pc' = [pc EXCEPT ![i] = "read"]
            /\ loc' = [loc EXCEPT ![i].source_bucket_name = ev.Records[1].bucket,
                                  ![i].s3_key = ev.Records[1].key,
                                  ![i].file_content = <<>>]
            /\ response' = response
    /\ UNCHANGED <<s3, table, clock, calls, writes, issuerVars>>

\* lines 98-99: get_object, then decode; fault is a failure of the S3 call
ReadObject(i, fault) ==
    /\ pc[i] = "read"
    /\ LET bucket == loc[i].source_bucket_name
           key == loc[i].s3_key
           found == ~fault /\ HasObject(s3, bucket, key)
           decoded == Utf8Decode(s3[bucket][key])
       IN  /\ calls' = [calls EXCEPT ![i] = Append(@, GetCall(bucket, key, found))]
           /\ IF ~found THEN Raise(i, "get_object failed")
              ELSE IF ~decoded.ok THEN Raise(i, "UnicodeDecodeError")
              ELSE /\ pc' = [pc EXCEPT ![i] = "validate"]
                   /\ loc' = [loc EXCEPT ![i].file_content = decoded.text]
    /\ UNCHANGED <<s3, table, clock, event, response, writes, issuerVars>>

\* lines 102-104
Validate(i) ==
    /\ pc[i] = "validate"
    /\ LET v == validate_file_content(loc[i].file_content)
       IN  loc' = [loc EXCEPT ![i].is_valid = v.is_valid,
                              ![i].validation_message = v.message]
    /\ pc' = [pc EXCEPT ![i] = "extract"]
    /\ UNCHANGED <<s3, table, clock, event, calls, response, writes, issuerVars>>

\* the handler that copies to quarantine straight after extraction, before the
\* record is put
ExtractSkipsPersist(i) ==
    /\ pc[i] = "extract"
    /\ LET r == extract_metadata(loc[i].file_content, loc[i].s3_key, clock)
       IN  IF r.raised THEN Raise(i, "TypeError")
           ELSE /\ pc' = [pc EXCEPT ![i] =
                      IF NeedsQuarantine(loc[i].is_valid) THEN "quarantine"
                      ELSE "persist"]
                /\ loc' = [loc EXCEPT ![i].metadata =
                              NormalItem(r.metadata, loc[i].is_valid,
                                         loc[i].validation_message,
                                         loc[i].source_bucket_name)]
    /\ clock' = clock + 1
    /\ UNCHANGED <<s3, table, event, calls, response, writes, issuerVars>>

\* lines 106-110
Extract(i) ==
    /\ pc[i] = "extract"
    /\ LET r == extract_metadata(loc[i].file_content, loc[i].s3_key, clock)
       IN  IF r.raised THEN Raise(i, "TypeError")
           ELSE /\ pc' = [pc EXCEPT ![i] = "persist"]
                /\ loc' = [loc EXCEPT ![i].metadata =
                              NormalItem(r.metadata, loc[i].is_valid,
                                         loc[i].validation_message,
                                         loc[i].source_bucket_name)]
    /\ clock' = clock + 1
    /\ UNCHANGED <<s3, table, event, calls, response, writes, issuerVars>>

\* the persist step with a retry: a refused write is attempted a second time
PersistRetryOnce(i, ok) ==
    /\ pc[i] = "persist"
    /\ calls' = [calls EXCEPT ![i] = Append(@, PutCall(loc[i].metadata, ok))]
    /\ IF ok
       THEN /\ table' = WriteRecord(table, loc[i].metadata)
            /\ writes' = Append(writes, loc[i].metadata)
            /\ pc' = [pc EXCEPT ![i] =
                  IF NeedsQuarantine(loc[i].is_valid) THEN "quarantine" ELSE "return"]
            /\ loc' = loc
       ELSE /\ table' = table
            /\ writes' = writes
            /\ IF \E n \in 1..Len(calls[i]) : calls[i][n].op = "put_item"
               THEN Raise(i, "put_item failed")
               ELSE pc' = pc /\ loc' = loc
    /\ UNCHANGED <<s3, clock, event, response, issuerVars>>

\* the persist step that swallows a refused write and carries on
PersistIgnoreFailure(i, ok) ==
    /\ pc[i] = "persist"
    /\ calls' = [calls EXCEPT ![i] = Append(@, PutCall(loc[i].metadata, ok))]
    /\ table' = IF ok THEN WriteRecord(table, loc[i].metadata) ELSE table
    /\ writes' = IF ok THEN Append(writes, loc[i].metadata) ELSE writes
    /\ pc' = [pc EXCEPT ![i] =
          IF NeedsQuarantine(loc[i].is_valid) THEN "quarantine" ELSE "return"]
    /\ UNCHANGED <<s3, clock, event, loc, response, issuerVars>>

\* lines 112-115: put_item; ok is whether the table accepts the write
Persist(i, ok) ==
    /\ pc[i] = "persist"
    /\ calls' = [calls EXCEPT ![i] = Append(@, PutCall(loc[i].metadata, ok))]
    /\ IF ok
       THEN /\ table' = WriteRecord(table, loc[i].metadata)
            /\ writes' = Append(writes, loc[i].metadata)
            /\ pc' = [pc EXCEPT ![i] =
                  IF NeedsQuarantine(loc[i].is_valid) THEN "quarantine" ELSE "return"]
            /\ loc' = loc
       ELSE /\ table' = table
            /\ writes' = writes
            /\ Raise(i, "put_item failed")
    /\ UNCHANGED <<s3, clock, event, response, issuerVars>>

\* s3_client.delete_object(Bucket, Key), the call line 127 leaves commented out
DeleteObject(store, bucket, key) ==
    [store EXCEPT ![bucket] = [k \in (DOMAIN store[bucket]) \ {key} |-> store[bucket][k]]]

\* the quarantine step with line 127 enabled: the source is deleted after the copy
QuarantineThenDelete(i, fault) ==
    /\ pc[i] = "quarantine"
    /\ LET bucket == loc[i].source_bucket_name
           key == loc[i].s3_key
           copied == ~fault /\ HasObject(s3, bucket, key)
       IN  /\ calls' = [calls EXCEPT ![i] =
                  Append(@, CopyCall(QuarantineBucket, QuarantineKey(key),
                                     bucket, key, copied))]
           /\ IF copied
              THEN /\ s3' = DeleteObject(
                              PutObject(s3, QuarantineBucket, QuarantineKey(key),
                                        s3[bucket][key]),
                              bucket, key)
                   /\ pc' = [pc EXCEPT ![i] = "return"]
                   /\ loc' = loc
              ELSE /\ s3' = s3
                   /\ Raise(i, "copy_object failed")
    /\ UNCHANGED <<table, clock, event, response, writes, issuerVars>>

\* lines 117-128: copy_object; fault is a failure of the S3 call
Quarantine(i, fault) ==
    /\ pc[i] = "quarantine"
    /\ LET bucket == loc[i].source_bucket_name
           key == loc[i].s3_key
           copied == ~fault /\ HasObject(s3, bucket, key)
       IN  /\ calls' = [calls EXCEPT ![i] =
                  Append(@, CopyCall(QuarantineBucket, QuarantineKey(key),
                                     bucket, key, copied))]
           /\ IF copied
              THEN /\ s3' = PutObject(s3, QuarantineBucket, QuarantineKey(key),
                                      s3[bucket][key])
                   /\ pc' = [pc EXCEPT ![i] = "return"]
                   /\ loc' = loc
              ELSE /\ s3' = s3
                   /\ Raise(i, "copy_object failed")
    /\ UNCHANGED <<table, clock, event, response, writes, issuerVars>>

\* lines 130-140
ReturnSuccess(i) ==
    /\ pc[i] = "return"
    /\ response' = [response EXCEPT ![i] =
          SuccessResponse(loc[i].s3_key, loc[i].is_valid,
                          loc[i].validation_message, loc[i].metadata.JobId)]
    /\ pc' = [pc EXCEPT ![i] = "done"]
    /\ UNCHANGED <<s3, table, clock, event, loc, calls, writes, issuerVars>>

\* the except clause that only logs: no failure record is put
HandleFailureLogOnly(i, ok) ==
    /\ pc[i] = "except"
    /\ response' = [response EXCEPT ![i] = ErrorResponse(loc[i].s3_key, loc[i].e)]
    /\ pc' = [pc EXCEPT ![i] = "done"]
    /\ UNCHANGED <<s3, table, clock, event, loc, calls, writes, issuerVars>>

\* lines 142-169: the except clause; ok is whether the table accepts the write
HandleFailure(i, ok) ==
    /\ pc[i] = "except"
    /\ LET item == failure_metadata(loc[i].s3_key, loc[i].file_content, loc[i].e,
                                    loc[i].source_bucket_name, clock)
       IN  /\ calls' = [calls EXCEPT ![i] = Append(@, PutCall(item, ok))]
           /\ table' = IF ok THEN WriteRecord(table, item) ELSE table
           /\ writes' = IF ok THEN Append(writes, item) ELSE writes
    /\ clock' = clock + 1
    /\ response' = [response EXCEPT ![i] = ErrorResponse(loc[i].s3_key, loc[i].e)]
    /\ pc' = [pc EXCEPT ![i] = "done"]
    /\ UNCHANGED <<s3, event, loc, issuerVars>>

(***************************************************************************)
(* One invocation on a bucket that holds one upload.                       *)
(***************************************************************************)

EmptyStore == [b \in {InputBucket, QuarantineBucket} |-> <<>>]

InitWith(n, uploads) ==
    /\ \E u \in uploads : s3 = PutObject(EmptyStore, InputBucket, u.key, u.body)
    /\ table = {}
    /\ clock = 0
    /\ pc = [i \in 1..n |-> "idle"]
    /\ event = [i \in 1..n |-> NoEvent]
    /\ loc = [i \in 1..n |-> NoLocals]
    /\ calls = [i \in 1..n |-> <<>>]
    /\ response = [i \in 1..n |-> NoResponse]
    /\ writes = <<>>
    /\ S3_INPUT_BUCKET_NAME = InputBucket
    /\ issuerLog = <<>>

Init == InitWith(1, Uploads)

\* the events the trigger may deliver for the bucket's objects
Events == UNION {EventsFor(k) : k \in DOMAIN s3[InputBucket]}

Next ==
    \/ \E i \in Invocations, ev \in Events : Start(i, ev)
    \/ \E i \in Invocations, fault \in BOOLEAN : ReadObject(i, fault)
    \/ \E i \in Invocations : Validate(i)
    \/ \E i \in Invocations : Extract(i)
    \/ \E i \in Invocations, ok \in BOOLEAN : Persist(i, ok)
    \/ \E i \in Invocations, fault \in BOOLEAN : Quarantine(i, fault)
    \/ \E i \in Invocations : ReturnSuccess(i)
    \/ \E i \in Invocations, ok \in BOOLEAN : HandleFailure(i, ok)

Spec == Init /\ [][Next]_vars

\* The Lambda runtime runs a started handler to its return, and every I/O call
\* returns or raises: each step is weakly fair.  For the two steps that decode
\* and parse the content, WF_vars is written out with the step's enabling
\* condition, its place in the handler.
ReadReturns ==
    \/ []<>(\A i \in Invocations : pc[i] # "read")
    \/ []<><<\E i \in Invocations, fault \in BOOLEAN : ReadObject(i, fault)>>_vars

ExtractReturns ==
    \/ []<>(\A i \in Invocations : pc[i] # "extract")
    \/ []<><<\E i \in Invocations : Extract(i)>>_vars

RunToReturn ==
    /\ ReadReturns
    /\ WF_vars(\E i \in Invocations : Validate(i))
    /\ ExtractReturns
    /\ WF_vars(\E i \in Invocations, ok \in BOOLEAN : Persist(i, ok))
    /\ WF_vars(\E i \in Invocations, fault \in BOOLEAN : Quarantine(i, fault))
    /\ WF_vars(\E i \in Invocations : ReturnSuccess(i))
    /\ WF_vars(\E i \in Invocations, ok \in BOOLEAN : HandleFailure(i, ok))

SpecFair == Spec /\ RunToReturn

(***************************************************************************)
(* Concurrent invocations on a bucket that holds one upload.               *)
(***************************************************************************)

NumInvocations == 2

\* a valid file whose job id is the key of another event, and an invalid file
\* that names its own key
ConcurrentUploads ==
    { [key |-> PlainKey, body |-> JsonObject1(JOB_ID, JsonString(GhostKey))],
      SelfNamedUpload }

InitConcurrent == InitWith(NumInvocations, ConcurrentUploads)

\* the events of one record: the object's, and that of an object that is gone
SingleEvents == {ev \in Events : Len(ev.Records) = 1}

NextConcurrent ==
    \/ \E i \in Invocations, ev \in SingleEvents : Start(i, ev)
    \/ \E i \in Invocations, fault \in BOOLEAN : ReadObject(i, fault)
    \/ \E i \in Invocations : Validate(i)
    \/ \E i \in Invocations : Extract(i)
    \/ \E i \in Invocations, ok \in BOOLEAN : Persist(i, ok)
    \/ \E i \in Invocations, fault \in BOOLEAN : Quarantine(i, fault)
    \/ \E i \in Invocations : ReturnSuccess(i)
    \/ \E i \in Invocations, ok \in BOOLEAN : HandleFailure(i, ok)

SpecConcurrent == InitConcurrent /\ [][NextConcurrent]_vars

(***************************************************************************)
(* GetPresignedURL.lambda_handler.                                         *)
(***************************************************************************)

MaxRequests == 2
ExpiresIn == 300

FILENAME == <<"f", "i", "l", "e", "n", "a", "m", "e">>

\* an API Gateway event: without 'body', with a null body, or with a text body
IssuerEvent(hasBody, isNull, body) ==
    [hasBody |-> hasBody, isNull |-> isNull, body |-> body]

IssuerBodies ==
    { <<>>,                                              \* not JSON
      <<"x">>,
      <<"n", "u", "l", "l">>,
      <<"5">>,
      <<"[", "]">>,
      JsonString(FILENAME),
      <<"{", "}">>,
      JsonObject1(<<"n", "a", "m", "e">>, JsonString(ReportCsv)),
      JsonObject1(FILENAME, JsonString(<<>>)),
      JsonObject1(FILENAME, <<"n", "u", "l", "l">>),
      JsonObject1(FILENAME, <<"0">>),
      JsonObject1(FILENAME, <<"5">>),
      JsonObject1(FILENAME, JsonString(ReportCsv)),
      JsonObject1(FILENAME, JsonString(DashedName)) }

IssuerEvents ==
    {IssuerEvent(FALSE, FALSE, <<>>), IssuerEvent(TRUE, TRUE, <<>>)}
        \cup {IssuerEvent(TRUE, FALSE, b) : b \in IssuerBodies}

\* bool(v) of a parsed value (`not original_filename` is its negation)
Truthy(v) ==
    CASE v.t = "str" -> v.s # <<>>
      [] v.t = "num" -> \E i \in 1..Len(v.s) : v.s[i] # "0"
      [] v.t = "true" -> TRUE
      [] v.t = "list" -> v.items # <<>>
      [] v.t = "obj" -> v.items # <<>>
      [] OTHER -> FALSE

\* body.get('filename') on a dict: the member's value, None when absent
DictGet(data, name) ==
    IF \E i \in 1..Len(data.items) : data.items[i].k = name
    THEN PyGetItem(data, name).v
    ELSE JLit("null")

PlainHeaders == [h \in {"Content-Type"} |-> "application/json"]

CorsHeaders ==
    [h \in {"Content-Type", "Access-Control-Allow-Origin",
            "Access-Control-Allow-Headers", "Access-Control-Allow-Methods"} |->
        CASE h = "Content-Type" -> "application/json"
          [] h = "Access-Control-Allow-Origin" -> "*"
          [] h = "Access-Control-Allow-Headers" ->
                "Content-Type,X-Amz-Date,Authorization,X-Api-Key,X-Amz-Security-Token"
          [] h = "Access-Control-Allow-Methods" -> "OPTIONS,POST"]

IssuerError(status, headers, message) ==
    [statusCode |-> status, headers |-> headers,
     body |-> [message |-> message, uploadUrl |-> <<>>, fileKey |-> <<>>]]

\* generate_presigned_url('put_object', Bucket, Key, ExpiresIn): the credential
PresignedUrl(bucket, key) ==
    [ClientMethod |-> "put_object", Bucket |-> bucket, Key |-> key,
     ExpiresIn |-> ExpiresIn]

\* lines 21-107: [response, presigned (the credentials generated)] for the event
\* ev, the uuid u and a credential generation that succeeds or not
IssueUploadCredential(bucketName, ev, u, presignOk) ==
    LET parsed == json_loads(ev.body)
        original_filename == DictGet(parsed.v, FILENAME)
        s3_key == s3_object_key(u, PyStr(original_filename))
        none == <<>>
    IN  IF bucketName = ""
        THEN [response |-> IssuerError(500, PlainHeaders,
                  "Internal server error: S3 bucket name not configured."),
              presigned |-> none]
        ELSE IF ~ev.hasBody                                   \* KeyError
        THEN [response |-> IssuerError(400, PlainHeaders, "Missing expected key"),
              presigned |-> none]
        ELSE IF ev.isNull                                     \* TypeError
        THEN [response |-> IssuerError(500, CorsHeaders, "Internal server error"),
              presigned |-> none]
        ELSE IF ~parsed.ok                                    \* JSONDecodeError
        THEN [response |-> IssuerError(400, PlainHeaders,
                  "Invalid JSON in request body"),
              presigned |-> none]
        ELSE IF parsed.v.t # "obj"                            \* AttributeError
        THEN [response |-> IssuerError(500, CorsHeaders, "Internal server error"),
              presigned |-> none]
        ELSE IF ~Truthy(original_filename)
        THEN [response |-> IssuerError(400, PlainHeaders,
                  "Missing filename in request body"),
              presigned |-> none]
        ELSE IF ~presignOk
        THEN [response |-> IssuerError(500, CorsHeaders, "Internal server error"),
              presigned |-> none]
        ELSE [response |->
                [statusCode |-> 200, headers |-> CorsHeaders,
                 body |-> [message |-> "Pre-signed URL generated successfully",
                           uploadUrl |-> <<PresignedUrl(bucketName, s3_key)>>,
                           fileKey |-> s3_key]],
              presigned |-> <<PresignedUrl(bucketName, s3_key)>>]

\* one request served by the issuer
GetPresignedURL(ev, u, presignOk) ==
    /\ Len(issuerLog) < MaxRequests
    /\ LET r == IssueUploadCredential(S3_INPUT_BUCKET_NAME, ev, u, presignOk)
       IN  issuerLog' = Append(issuerLog,
               [event |-> ev, presignOk |-> presignOk, response |-> r.response,
                presigned |-> r.presigned])
    /\ UNCHANGED <<processorVars, S3_INPUT_BUCKET_NAME>>

InitIssuer ==
    /\ s3 = EmptyStore
    /\ table = {}
    /\ clock = 0
    /\ pc = <<>>
    /\ event = <<>>
    /\ loc = <<>>
    /\ calls = <<>>
    /\ response = <<>>
    /\ writes = <<>>
    /\ S3_INPUT_BUCKET_NAME \in {InputBucket, ""}
    /\ issuerLog = <<>>

NextIssuer ==
    \E ev \in IssuerEvents, u \in Uuids, presignOk \in BOOLEAN :
        GetPresignedURL(ev, u, presignOk)

SpecIssuer == InitIssuer /\ [][NextIssuer]_vars

(***************************************************************************)
(* What an invocation did, read off its call log.                          *)
(***************************************************************************)

IsGet(c) == c.op = "get_object"
IsPut(c) == c.op = "put_item"
IsCopy(c) == c.op = "copy_object"
IsFailurePut(c) == IsPut(c) /\ c.Item.ValidationStatus = "PROCESSING_FAILED"
IsNormalPut(c) == IsPut(c) /\ c.Item.ValidationStatus \in {"VALID", "INVALID"}
IsAccepted(c) == c.ok

Gets(i) == SelectSeq(calls[i], IsGet)
Puts(i) == SelectSeq(calls[i], IsPut)
Copies(i) == SelectSeq(calls[i], IsCopy)
FailurePuts(i) == SelectSeq(calls[i], IsFailurePut)
NormalPuts(i) == SelectSeq(calls[i], IsNormalPut)
AcceptedPuts(i) == SelectSeq(Puts(i), IsAccepted)

Finished(i) == pc[i] = "done"
HasRecord(i) == event[i].hasRecords /\ event[i].Records # <<>>
\* a step of the try block raised
StepFailed(i) == loc[i].e # ""
\* the table refused none of the invocation's writes
StoreAccepts(i) == \A n \in 1..Len(Puts(i)) : Puts(i)[n].ok
\* get_object returned and the body decoded
ReadAndDecoded(i) ==
    /\ \E n \in 1..Len(Gets(i)) : Gets(i)[n].ok
    /\ loc[i].e # "UnicodeDecodeError"
PersistedNormal(i) == \E n \in 1..Len(NormalPuts(i)) : NormalPuts(i)[n].ok
CopyFailed(i) == \E n \in 1..Len(Copies(i)) : ~Copies(i)[n].ok

(***************************************************************************)
(* C1.  Whenever a step of the try block (read, decode, validate, extract, *)
(* persist, quarantine copy) fails, the invocation ends with exactly one   *)
(* attempted put of a failure record, whose JobId is the storage key and   *)
(* whose ValidationStatus is PROCESSING_FAILED, and with a status-500      *)
(* response, whether or not the table accepts that put; before the except  *)
(* clause has run no failure record has been put.                          *)
(***************************************************************************)
C1_FailureIsRecordedAndReported ==
    \A i \in Invocations :
        /\ (StepFailed(i) /\ Finished(i)) =>
              /\ response[i].statusCode = 500
              /\ Len(FailurePuts(i)) = 1
              /\ FailurePuts(i)[1].Item.JobId = loc[i].s3_key
              /\ FailurePuts(i)[1].Item.ValidationStatus = "PROCESSING_FAILED"
        /\ (StepFailed(i) /\ ~Finished(i)) =>
              /\ pc[i] = "except"
              /\ FailurePuts(i) = <<>>
        /\ pc[i] = "except" => StepFailed(i)

\* a copy fails after the record was put, and the table refuses the failure record
C1_Witness ==
    \E i \in Invocations :
        /\ Finished(i) /\ StepFailed(i) /\ CopyFailed(i)
        /\ Len(FailurePuts(i)) = 1 /\ ~FailurePuts(i)[1].ok
        /\ response[i].statusCode = 500

(***************************************************************************)
(* C2.  Whenever the object was read and decoded and the table accepts     *)
(* the writes, a finished invocation has persisted a record whose          *)
(* ValidationStatus is VALID or INVALID as the Validator decided and whose *)
(* ValidationMessage is the Validator's reason.                            *)
(***************************************************************************)
C2_RecordCarriesValidatorOutcome ==
    \A i \in Invocations :
        (Finished(i) /\ HasRecord(i) /\ ReadAndDecoded(i) /\ StoreAccepts(i)) =>
            LET v == validate_file_content(loc[i].file_content)
            IN  \E n \in 1..Len(AcceptedPuts(i)) :
                    /\ AcceptedPuts(i)[n].Item.ValidationStatus = StatusOf(v.is_valid)
                    /\ AcceptedPuts(i)[n].Item.ValidationMessage = v.message

(***************************************************************************)
(* C3.  copy_object is called at most once, only after the record of a     *)
(* rejected content was persisted, always from the source bucket and key   *)
(* to the quarantine bucket under "invalid/" followed by the unchanged     *)
(* key; a finished invocation has called it exactly when the Validator     *)
(* rejected the content and the record was persisted.                      *)
(***************************************************************************)
C3_QuarantineOnlyInvalid ==
    \A i \in Invocations :
        LET rejected == ~validate_file_content(loc[i].file_content).is_valid
        IN  /\ Len(Copies(i)) <= 1
            /\ \A n \in 1..Len(Copies(i)) :
                  /\ Copies(i)[n].Bucket = QuarantineBucket
                  /\ Copies(i)[n].Key = <<"i", "n", "v", "a", "l", "i", "d", "/">>
                                            \o event[i].Records[1].key
                  /\ Copies(i)[n].CopySource =
                        [Bucket |-> event[i].Records[1].bucket,
                         Key |-> event[i].Records[1].key]
            /\ Copies(i) # <<>> => (rejected /\ PersistedNormal(i))
            /\ Finished(i) => (Copies(i) # <<>> <=> (rejected /\ PersistedNormal(i)))

\* an invalid file was recorded and copied, and the invocation returned
C3_Witness ==
    \E i \in Invocations :
        /\ Finished(i) /\ response[i].statusCode = 200
        /\ Len(Copies(i)) = 1 /\ Copies(i)[1].ok
        /\ QuarantineKey(loc[i].s3_key) \in DOMAIN s3[QuarantineBucket]

(***************************************************************************)
(* C4, as claimed.  A finished invocation on an event with a record has    *)
(* made exactly one write that the table accepted, whenever the table      *)
(* accepts writes.                                                         *)
(***************************************************************************)
C4_ExactlyOneWrite ==
    \A i \in Invocations :
        (Finished(i) /\ HasRecord(i) /\ StoreAccepts(i)) => Len(AcceptedPuts(i)) = 1

(***************************************************************************)
(* C4, amended.  A finished invocation on an event with a record has made  *)
(* exactly one accepted write, except when the quarantine copy failed      *)
(* after the INVALID record was written: then it has made exactly two,     *)
(* the INVALID record and then the failure record under the storage key.   *)
(***************************************************************************)
C4_OneWriteOrTwoAfterCopyFailure ==
    \A i \in Invocations :
        (Finished(i) /\ HasRecord(i) /\ StoreAccepts(i)) =>
            IF CopyFailed(i)
            THEN /\ Len(AcceptedPuts(i)) = 2
                 /\ AcceptedPuts(i)[1].Item.ValidationStatus = "INVALID"
                 /\ AcceptedPuts(i)[2].Item.ValidationStatus = "PROCESSING_FAILED"
                 /\ AcceptedPuts(i)[2].Item.JobId = loc[i].s3_key
            ELSE Len(AcceptedPuts(i)) = 1

\* the copy failed and both writes were accepted
C4_Witness ==
    \E i \in Invocations :
        /\ Finished(i) /\ HasRecord(i) /\ StoreAccepts(i) /\ CopyFailed(i)
        /\ Len(AcceptedPuts(i)) = 2

(***************************************************************************)
(* C5.  Extraction returns a record for every decoded content and every    *)
(* key, so no invocation enters the except clause from the extract step.   *)
(***************************************************************************)
C5_ExtractionNeverFails ==
    \A i \in Invocations :
        /\ pc[i] = "extract" =>
              ~extract_metadata(loc[i].file_content, loc[i].s3_key, clock).raised
        /\ pc[i] = "except" => loc[i].e # "TypeError"

(***************************************************************************)
(* C6.  Under every interleaving of concurrent invocations the table holds *)
(* one record per JobId written, and it is the item of the most recent     *)
(* accepted put for that JobId, so that a put changes the record of its    *)
(* own JobId only; every quarantine object is the unchanged body of the    *)
(* source object it was copied from, whoever copied it last.               *)
(***************************************************************************)
WrittenJobIds == {writes[n].JobId : n \in 1..Len(writes)}

LastWrite(jobId) ==
    writes[CHOOSE n \in 1..Len(writes) :
              /\ writes[n].JobId = jobId
              /\ \A m \in (n + 1)..Len(writes) : writes[m].JobId # jobId]

IsFailureItem(r) == r.ValidationStatus = "PROCESSING_FAILED"

C7_FailureJobIdsNeverCollide ==
    \A n, m \in 1..Len(writes) :
        (n # m /\ writes[n].JobId = writes[m].JobId) =>
            /\ IsFailureItem(writes[n]) <=> IsFailureItem(writes[m])
            /\ IsFailureItem(writes[n]) => writes[n].S3Key = writes[m].S3Key

(***************************************************************************)
(* C8.  For every key the issuer composes from a uuid and a non-empty      *)
(* filename without '-', every record the processor puts for that key, on  *)
(* the success path and in the except clause, has OriginalFileName equal   *)
(* to that filename.                                                       *)
(***************************************************************************)
C8_IssuedKeyRoundTrip ==
    \A i \in Invocations : \A n \in 1..Len(Puts(i)) :
        \A u \in Uuids, f \in Filenames :
            (f # <<>> /\ Separator \notin Range(f)
                /\ Puts(i)[n].Item.S3Key = s3_object_key(u, f)) =>
                Puts(i)[n].Item.OriginalFileName = f

(***************************************************************************)
(* C9.  For every key token-name whose name holds no '-', the recorded     *)
(* OriginalFileName is name; it is the rest of the key after its first     *)
(* '-', and the whole key when the key holds no '-'.                       *)
(***************************************************************************)
Tokens == Uuids \cup {<<"t">>}
Names == Filenames \cup {<<"n">>}

C9_SplitRecoversName ==
    \A i \in Invocations : \A n \in 1..Len(Puts(i)) :
        LET key == Puts(i)[n].Item.S3Key
            name == Puts(i)[n].Item.OriginalFileName
        IN  /\ Separator \notin Range(key) => name = key
            /\ Separator \in Range(key) =>
                  \E p \in 1..Len(key) :
                      /\ key[p] = Separator
                      /\ \A q \in 1..(p - 1) : key[q] # Separator
                      /\ name = SubSeq(key, p + 1, Len(key))
            /\ \A token \in Tokens, nm \in Names :
                  (Separator \notin Range(nm)
                      /\ key = token \o <<Separator>> \o nm) => name = nm

(***************************************************************************)
(* C10.  With the input bucket configured, the issuer answers 400 and      *)
(* generates no credential when the body is missing, null, not JSON, not   *)
(* an object, or an object without a non-empty filename; it answers 200    *)
(* only for a supplied filename and a successful credential generation,    *)
(* with fileKey = uuid + '-' + filename; it answers 500 only when the      *)
(* bucket is not configured or the credential generation fails.            *)
(***************************************************************************)
BadRequest(ev) ==
    \/ ~ev.hasBody
    \/ ev.isNull
    \/ ~json_loads(ev.body).ok
    \/ json_loads(ev.body).v.t # "obj"
    \/ ~Truthy(DictGet(json_loads(ev.body).v, FILENAME))

C10_IssuerStatusCodes ==
    \A n \in 1..Len(issuerLog) :
        LET ev == issuerLog[n].event
            r == issuerLog[n].response
            configured == S3_INPUT_BUCKET_NAME # ""
        IN  /\ (configured /\ BadRequest(ev)) =>
                  (r.statusCode = 400 /\ issuerLog[n].presigned = <<>>)
            /\ r.statusCode = 200 =>
                  /\ ~BadRequest(ev) /\ issuerLog[n].presignOk
                  /\ \E u \in Uuids :
                        r.body.fileKey = u \o <<Separator>>
                            \o PyStr(DictGet(json_loads(ev.body).v, FILENAME))
            /\ r.statusCode = 500 => (~configured \/ ~issuerLog[n].presignOk)

(***************************************************************************)
(* C11.  Every response of the issuer, on the 200 path and on every 400    *)
(* and 500 path, carries Access-Control-Allow-Origin: *, an                *)
(* Access-Control-Allow-Headers header and an Access-Control-Allow-Methods *)
(* header that lists OPTIONS and POST.                                     *)
(***************************************************************************)
HasCors(headers) ==
    /\ {"Access-Control-Allow-Origin", "Access-Control-Allow-Headers",
        "Access-Control-Allow-Methods"} \subseteq DOMAIN headers
    /\ headers["Access-Control-Allow-Origin"] = "*"
    /\ headers["Access-Control-Allow-Methods"] = "OPTIONS,POST"

C11_EveryResponseHasCors ==
    \A n \in 1..Len(issuerLog) : HasCors(issuerLog[n].response.headers)

(***************************************************************************)
(* C12.  An invocation on an event without a Records field, or with an     *)
(* empty Records list, has returned the status-400 "no records" response   *)
(* and has made no get_object, put_item or copy_object call; the step that *)
(* handles such an event leaves the buckets and the table as they were.    *)
(***************************************************************************)
C12_NoRecordsIsNoOp ==
    /\ [](\A i \in Invocations :
            (pc[i] # "idle" /\ ~HasRecord(i)) =>
                /\ Finished(i)
                /\ response[i] = NoRecordsResponse
                /\ calls[i] = <<>>)
    /\ [][\A i \in Invocations :
            (pc[i] = "idle" /\ pc'[i] # "idle"
                /\ ~(event'[i].hasRecords /\ event'[i].Records # <<>>)) =>
                (s3' = s3 /\ table' = table /\ writes' = writes)]_vars

\* an event without records was delivered and answered
C12_Witness ==
    \E i \in Invocations :
        /\ Finished(i) /\ ~HasRecord(i)
        /\ response[i].statusCode = 400 /\ calls[i] = <<>>

(***************************************************************************)
(* C13.  Once the validator has run on the decoded content, its outcome is *)
(* (False, "File is empty") for empty content, (False, "Content missing    *)
(* 'job_id' keyword") for non-empty content that nowhere spells job_id in  *)
(* any mix of letter cases, and (True, "Valid") for every other content.   *)
(***************************************************************************)
KeywordUpper == <<"J", "O", "B", "_", "I", "D">>

\* content spells the keyword somewhere, each letter in either case
SpellsKeyword(content) ==
    \E p \in 0..(Len(content) - Len(JOB_ID)) :
        \A j \in 1..Len(JOB_ID) : content[p + j] \in {JOB_ID[j], KeywordUpper[j]}

Validated(i) == ReadAndDecoded(i) /\ pc[i] \notin {"idle", "read", "validate"}

C13_ValidatorRulesInOrder ==
    \A i \in Invocations :
        Validated(i) =>
            LET content == loc[i].file_content
                outcome == <<loc[i].is_valid, loc[i].validation_message>>
            IN  /\ content = <<>> => outcome = <<FALSE, "File is empty">>
                /\ (content # <<>> /\ ~SpellsKeyword(content)) =>
                      outcome = <<FALSE, "Content missing 'job_id' keyword">>
                /\ (content # <<>> /\ SpellsKeyword(content)) =>
                      outcome = <<TRUE, "Valid">>

\* content with the keyword in upper case only was accepted
C13_Witness ==
    \E i \in Invocations :
        /\ Validated(i) /\ loc[i].is_valid
        /\ ~Contains(loc[i].file_content, JOB_ID)
        /\ Contains(loc[i].file_content, KeywordUpper)

(***************************************************************************)
(* C14.  Once the extract step has run on the decoded content, it has      *)
(* produced a record whose JobId is str() of the value of the field job_id *)
(* when the content is a JSON document with that field, else str() of the  *)
(* value of the field JobId when the document has that field, else         *)
(* "UNKNOWN" (the content is not JSON, or has neither field).              *)
(***************************************************************************)
HasField(content, name) ==
    /\ json_loads(content).ok
    /\ json_loads(content).v.t = "obj"
    /\ \E n \in 1..Len(json_loads(content).v.items) :
          json_loads(content).v.items[n].k = name

FieldText(content, name) == PyStr(DictGet(json_loads(content).v, name))

ExpectedJobId(content) ==
    IF HasField(content, JOB_ID) THEN FieldText(content, JOB_ID)
    ELSE IF HasField(content, JobIdAlt) THEN FieldText(content, JobIdAlt)
    ELSE UNKNOWN

Extracted(i) ==
    ReadAndDecoded(i) /\ pc[i] \notin {"idle", "read", "validate", "extract"}

C14_JobIdRule ==
    \A i \in Invocations :
        Extracted(i) =>
            /\ loc[i].e # "TypeError"
            /\ loc[i].metadata.JobId = ExpectedJobId(loc[i].file_content)

(***************************************************************************)
(* C15.  Every get_object, put_item and copy_object call of an invocation  *)
(* concerns the bucket and key of the first record of its event, whatever  *)
(* the number of records; every item of the table and every object of the  *)
(* quarantine bucket belongs to the first record of some delivered event.  *)
(***************************************************************************)
FirstRecord(i) == event[i].Records[1]

ConcernsFirstRecord(i, c) ==
    LET first == FirstRecord(i)
    IN  /\ IsGet(c) => (c.Bucket = first.bucket /\ c.Key = first.key)
        /\ IsPut(c) =>
              (c.Item.S3Key = first.key /\ c.Item.SourceBucket = first.bucket)
        /\ IsCopy(c) =>
              /\ c.CopySource = [Bucket |-> first.bucket, Key |-> first.key]
              /\ c.Bucket = QuarantineBucket /\ c.Key = QuarantineKey(first.key)

FirstKeys == {FirstRecord(i).key : i \in {j \in Invocations : HasRecord(j)}}

C15_OnlyFirstRecord ==
    /\ \A i \in Invocations :
          /\ ~HasRecord(i) => calls[i] = <<>>
          /\ HasRecord(i) =>
                \A n \in 1..Len(calls[i]) : ConcernsFirstRecord(i, calls[i][n])
    /\ \A r \in table : r.S3Key \in FirstKeys
    /\ \A qk \in DOMAIN s3[QuarantineBucket] :
          \E k \in FirstKeys : qk = QuarantineKey(k)

\* a batch of two records was processed to the end, with all three calls made
C15_Witness ==
    \E i \in Invocations :
        /\ Finished(i) /\ HasRecord(i) /\ Len(event[i].Records) = 2
        /\ event[i].Records[1] # event[i].Records[2]
        /\ Gets(i) # <<>> /\ Puts(i) # <<>> /\ Copies(i) # <<>>
        /\ table # {}

(***************************************************************************)
(* C16.  No step of the handler changes the input bucket: the objects it   *)
(* holds and their bodies are the same after every step, on the success    *)
(* path, on the quarantine path and in the except clause; the only call    *)
(* that writes an object is the copy, and its destination is the           *)
(* quarantine bucket, never the bucket of the source object.               *)
(***************************************************************************)
C16_SourceLeftInPlace ==
    /\ [][s3'[InputBucket] = s3[InputBucket]]_vars
    /\ [](\A i \in Invocations : \A n \in 1..Len(Copies(i)) :
            /\ Copies(i)[n].Bucket # Copies(i)[n].CopySource.Bucket
            /\ Copies(i)[n].CopySource.Bucket = InputBucket)

\* an invalid file was copied to quarantine and its source is still in place
C16_Witness ==
    \E i \in Invocations :
        /\ Finished(i) /\ Copies(i) # <<>> /\ Copies(i)[1].ok
        /\ HasObject(s3, InputBucket, loc[i].s3_key)
        /\ HasObject(s3, QuarantineBucket, QuarantineKey(loc[i].s3_key))
        /\ s3[InputBucket][loc[i].s3_key] =
              s3[QuarantineBucket][QuarantineKey(loc[i].s3_key)]

(***************************************************************************)
(* C17.  An invocation moves through read, validate, extract, persist and  *)
(* quarantine in that order, skipping none but the quarantine of a valid   *)
(* file, and enters the except clause only from a step at or after the     *)
(* read.  In the calls it has made, get_object comes first; the put of a   *)
(* VALID or INVALID record follows a get_object that returned the object;  *)
(* the copy follows an accepted put of the INVALID record; the put of a    *)
(* failure record follows the get_object attempt.                          *)
(***************************************************************************)
StepOrder == <<"read", "validate", "extract", "persist", "quarantine", "return">>

InOrder(from, to) ==
    \/ from = "idle" /\ to \in {"read", "done"}
    \/ /\ from \in Range(StepOrder) /\ to \in Range(StepOrder)
       /\ \/ Find(StepOrder, to) = Find(StepOrder, from) + 1
          \/ from = "persist" /\ to = "return"
    \/ from \in {"read", "validate", "extract", "persist", "quarantine"}
          /\ to = "except"
    \/ from \in {"return", "except"} /\ to = "done"

CallsInOrder(i) ==
    \A n \in 1..Len(calls[i]) :
        LET c == calls[i][n]
        IN  /\ IsGet(c) => n = 1
            /\ IsNormalPut(c) =>
                  \E m \in 1..(n - 1) : IsGet(calls[i][m]) /\ calls[i][m].ok
            /\ IsFailurePut(c) => \E m \in 1..(n - 1) : IsGet(calls[i][m])
            /\ IsCopy(c) =>
                  \E m \in 1..(n - 1) :
                      /\ IsNormalPut(calls[i][m]) /\ calls[i][m].ok
                      /\ calls[i][m].Item.ValidationStatus = "INVALID"

C17_StepOrder ==
    /\ [][\A i \in Invocations : pc'[i] # pc[i] => InOrder(pc[i], pc'[i])]_vars
    /\ [](\A i \in Invocations :
            /\ CallsInOrder(i)
            /\ pc[i] = "except" => Gets(i) # <<>>
            /\ pc[i] \in {"validate", "extract", "persist"} =>
                  (Len(calls[i]) = 1 /\ calls[i][1].ok)
            /\ pc[i] = "quarantine" => PersistedNormal(i))

\* an invocation made the three calls in order and returned
C17_Witness ==
    \E i \in Invocations :
        /\ Finished(i) /\ Len(calls[i]) = 3
        /\ IsGet(calls[i][1]) /\ IsNormalPut(calls[i][2]) /\ IsCopy(calls[i][3])
        /\ \A n \in 1..3 : calls[i][n].ok

(***************************************************************************)
(* C18.  A started invocation eventually returns a response of status 200, *)
(* 400 or 500, whichever of its I/O calls fail; it calls get_object at     *)
(* most once, copy_object at most once, put_item at most once with the     *)
(* VALID or INVALID record and at most once with the failure record, and   *)
(* after a call that failed it makes no call but the one put of the        *)
(* failure record.                                                         *)
(***************************************************************************)
NoRetry(i) ==
    /\ Len(Gets(i)) <= 1
    /\ Len(Copies(i)) <= 1
    /\ Len(NormalPuts(i)) <= 1
    /\ Len(FailurePuts(i)) <= 1
    /\ \A n \in 1..Len(calls[i]) :
          ~calls[i][n].ok =>
              \/ n = Len(calls[i])
              \/ /\ n + 1 = Len(calls[i])
                 /\ ~IsFailurePut(calls[i][n])
                 /\ IsFailurePut(calls[i][n + 1])

Returned(i) == Finished(i) /\ response[i].statusCode \in {200, 400, 500}

C18_TerminatesWithoutRetry ==
    /\ [](\A i \in Invocations : NoRetry(i))
    /\ (pc[1] # "idle") ~> Returned(1)

\* the table refused the record and then the failure record: 500 all the same
C18_Witness ==
    \E i \in Invocations :
        /\ Finished(i) /\ response[i].statusCode = 500
        /\ Len(NormalPuts(i)) = 1 /\ ~NormalPuts(i)[1].ok
        /\ Len(FailurePuts(i)) = 1 /\ ~FailurePuts(i)[1].ok

(***************************************************************************)
(* C19.  When an invocation has returned 200 with jobId J and isValid b,   *)
(* one of its puts was accepted with JobId J and ValidationStatus VALID    *)
(* (b) or INVALID (not b), and if b is false its copy to invalid/<key>     *)
(* succeeded.  When it has returned 500 and the table accepted its failure *)
(* put, that put wrote a PROCESSING_FAILED record under JobId = key: the   *)
(* table holds it at the return, and afterwards until a later put to the   *)
(* same JobId replaces it.                                                 *)
(***************************************************************************)
OkAgrees(i) ==
    LET b == response[i].body
    IN  /\ \E n \in 1..Len(AcceptedPuts(i)) :
              /\ AcceptedPuts(i)[n].Item.JobId = b.jobId
              /\ AcceptedPuts(i)[n].Item.ValidationStatus = StatusOf(b.isValid)
        /\ ~b.isValid =>
              \E n \in 1..Len(Copies(i)) :
                  /\ Copies(i)[n].ok
                  /\ Copies(i)[n].Bucket = QuarantineBucket
                  /\ Copies(i)[n].Key = QuarantineKey(b.s3Key)

FailurePutAccepted(i) == FailurePuts(i) # <<>> /\ FailurePuts(i)[1].ok

ErrorAgrees(i) ==
    LET item == FailurePuts(i)[1].Item
    IN  /\ item.JobId = response[i].body.s3Key
        /\ item.ValidationStatus = "PROCESSING_FAILED"
        /\ \E n \in 1..Len(writes) :
              /\ writes[n] = item
              /\ \/ item \in table
                 \/ \E m \in (n + 1)..Len(writes) : writes[m].JobId = item.JobId

Started == {i \in Invocations : pc[i] # "idle"}

Outcome(i) == [n \in 1..Len(calls[i]) |-> <<calls[i][n].op, calls[i][n].ok>>]

\* a record without its ProcessingTimestamp or Timestamp
Timeless(r) ==
    [JobId |-> r.JobId, ValidationStatus |-> r.ValidationStatus,
     ValidationMessage |-> r.ValidationMessage, S3Key |-> r.S3Key,
     OriginalFileName |-> r.OriginalFileName, FileSize |-> r.FileSize,
     SourceBucket |-> r.SourceBucket]

\* what invocation i alone leaves in an empty table
LeftBy(i) ==
    {Timeless(AcceptedPuts(i)[n].Item) : n \in
        {m \in 1..Len(AcceptedPuts(i)) :
            \A k \in (m + 1)..Len(AcceptedPuts(i)) :
                AcceptedPuts(i)[k].Item.JobId # AcceptedPuts(i)[m].Item.JobId}}

QuarantinedBy(i) ==
    {Copies(i)[n].Key : n \in {m \in 1..Len(Copies(i)) : Copies(i)[m].ok}}

SameDelivery ==
    /\ Started # {}
    /\ \A i \in Started : Finished(i) /\ HasRecord(i)
    /\ \A i, j \in Started : event[i] = event[j] /\ Outcome(i) = Outcome(j)

====
